---- MODULE Spec2Model ----
(***************************************************************************)
(* sentinel-rs: a supervisor that runs one shell command under `bash -c`,  *)
(* tees and captures its two output streams, and reports the lifecycle of  *)
(* the command through a background notifier thread (src/src/main.rs).     *)
(*                                                                         *)
(* Threads and processes of one invocation:                                *)
(*   main        fn main, with run_bash / run_bash_with_tee inlined        *)
(*   worker      the thread spawned by start_notifier                      *)
(*   relay out   the thread running read_stream on the child's stdout      *)
(*   relay err   the thread running read_stream on the child's stderr      *)
(*   child       the bash process (environment)                            *)
(*                                                                         *)
(* The environment (what the child does, whether spawn / wait / a pipe     *)
(* read / a sink write fails) is decided the first time the program        *)
(* observes it and is recorded in `world`, so that a second execution of   *)
(* the same invocation (action Rerun, specification SpecTwoRuns) faces the *)
(* same environment.  Outcomes of notification deliveries are not part of  *)
(* `world`: they are drawn afresh at every delivery.  A failed flush of    *)
(* the sink is recorded in `world` as well; its Result is discarded by the *)
(* program, so it has no effect a second execution could differ in.        *)
(*                                                                         *)
(* Specifications:                                                         *)
(*   Spec            one invocation of the supervisor                      *)
(*   SpecFair        the same under fair scheduling, for liveness          *)
(*   SpecTwoRuns     an invocation and its re-execution                    *)
(*   SpecReadStream  read_stream called directly, with either tee          *)
(*   SpecTailBytes   tail_bytes called directly                            *)
(***************************************************************************)
EXTENDS Integers, Sequences, FiniteSets, TLC

\* ------------------------------------------------------------------------
\* Bounds of the model
\* ------------------------------------------------------------------------

\* The child performs at most this many writes before it exits.
MaxWrites == 2

\* Capacity, in bytes, of each of the two OS pipes between child and relays.
PipeCap == 1

\* In a direct call of read_stream, the two sources hold at most this many
\* bytes together.
MaxSource == 3

\* In a direct call of tail_bytes, buf holds at most this many bytes.
MaxBuf == 3

\* In a direct call of tail_bytes, max is at most this.
MaxTail == 3

\* At most this many operations of the supervisor meet a fault of the
\* operating system (spawn, wait, a read of a pipe, a write to a sink).
MaxFaults == 1

\* ------------------------------------------------------------------------
\* Program constants
\* ------------------------------------------------------------------------

\* let mut chunk = [0u8; 4096];
ChunkSize == 4096

\* tail_bytes(&output.stdout, 1500)
TailMax == 1500

\* std::process::exit(2) on a usage error
UsageExit == 2

\* the exit code of a process whose main returns normally
ReturnExit == 0

\* U+FFFD, what String::from_utf8_lossy substitutes for malformed input
Replacement == 65533

\* ------------------------------------------------------------------------
\* Small helpers
\* ------------------------------------------------------------------------

Min(a, b) == IF a <= b THEN a ELSE b

Max(a, b) == IF a >= b THEN a ELSE b

Streams == {"out", "err"}

\* Option<T> as a set: None is {}, Some(v) is {v}.
None == {}

Some(v) == {v}

TheValue(opt) == CHOOSE v \in opt : TRUE

IsPrefix(s, t) == Len(s) <= Len(t) /\ SubSeq(t, 1, Len(s)) = s

\* A field of `world` is undecided while it is None; once decided it is replayed.
Choices(decided, all) == IF decided = None THEN all ELSE decided

\* ------------------------------------------------------------------------
\* Pure functions of the program
\* ------------------------------------------------------------------------

\* args.len() == 1 && (args[0] == "--help" || args[0] == "-h")
IsHelp(a) == Len(a) = 1 /\ a[1] \in {"--help", "-h"}

\* args.len() == 1 && (args[0] == "--version" || args[0] == "-V")
IsVersion(a) == Len(a) = 1 /\ a[1] \in {"--version", "-V"}

\* A faulty variant of IsMissingCommand: a lone "--" is not seen as a usage error.
IsMissingCommandNever(a) == FALSE

\* args[0] == "--" with args.len() == 1: "Missing command after --."
IsMissingCommand(a) == a[1] = "--" /\ Len(a) = 1

\* &args[1..] after a leading "--", &args[..] otherwise
CommandArgs(a) == IF a[1] = "--" THEN Tail(a) ELSE a

\* command_args.join(" "): the tokens with one " " between neighbours
RECURSIVE Join(_)
Join(tokens) ==
    IF Len(tokens) = 0 THEN <<>>
    ELSE IF Len(tokens) = 1 THEN <<tokens[1]>>
    ELSE <<tokens[1], " ">> \o Join(Tail(tokens))

IsCont(b) == b >= 128 /\ b <= 191

\* The second byte a lead byte of a 3- or 4-byte sequence admits.
SecondOk(b1, b2) ==
    CASE b1 = 224 -> b2 >= 160 /\ b2 <= 191
      [] b1 = 237 -> b2 >= 128 /\ b2 <= 159
      [] b1 = 240 -> b2 >= 144 /\ b2 <= 191
      [] b1 = 244 -> b2 >= 128 /\ b2 <= 143
      [] OTHER -> IsCont(b2)

\* UTF8_CHAR_WIDTH of a first byte; 0 for a byte that starts no character.
Utf8Width(b) ==
    IF b < 128 THEN 1
    ELSE IF b >= 194 /\ b <= 223 THEN 2
    ELSE IF b >= 224 /\ b <= 239 THEN 3
    ELSE IF b >= 240 /\ b <= 244 THEN 4
    ELSE 0

\* String::from_utf8_lossy: the code points of the bytes, every maximal
\* malformed part replaced by one U+FFFD.
RECURSIVE FromUtf8Lossy(_)
FromUtf8Lossy(b) ==
    IF Len(b) = 0 THEN <<>>
    ELSE LET w == Utf8Width(b[1])
             n == Len(b)
             rest(k) == FromUtf8Lossy(SubSeq(b, k + 1, n))
         IN  IF w = 1 THEN <<b[1]>> \o rest(1)
             ELSE IF w = 0 THEN <<Replacement>> \o rest(1)
             ELSE IF w = 2 THEN
                 IF n >= 2 /\ IsCont(b[2])
                 THEN <<(b[1] - 192) * 64 + (b[2] - 128)>> \o rest(2)
                 ELSE <<Replacement>> \o rest(1)
             ELSE IF ~(n >= 2 /\ SecondOk(b[1], b[2])) THEN <<Replacement>> \o rest(1)
             ELSE IF ~(n >= 3 /\ IsCont(b[3])) THEN <<Replacement>> \o rest(2)
             ELSE IF w = 3 THEN
                 <<(b[1] - 224) * 4096 + (b[2] - 128) * 64 + (b[3] - 128)>> \o rest(3)
             ELSE IF ~(n >= 4 /\ IsCont(b[4])) THEN <<Replacement>> \o rest(3)
             ELSE <<(b[1] - 240) * 262144 + (b[2] - 128) * 4096
                        + (b[3] - 128) * 64 + (b[4] - 128)>> \o rest(4)

\* The decimal digits of n, as code points ('0' is 48).
RECURSIVE Digits(_)
Digits(n) == IF n < 10 THEN <<48 + n>> ELSE Digits(n \div 10) \o <<48 + (n % 10)>>

\* "… (truncated, showing last {} bytes)\n" with {} = max, as code points
TruncationMarker(max) ==
    <<8230, 32, 40, 116, 114, 117, 110, 99, 97, 116, 101, 100, 44, 32, 115, 104,
      111, 119, 105, 110, 103, 32, 108, 97, 115, 116, 32>>
    \o Digits(max) \o <<32, 98, 121, 116, 101, 115, 41, 10>>

\* A faulty variant of TailBytes: a buffer of exactly max bytes is truncated.
TailBytesStrict(buf, max) ==
    IF Len(buf) < max
    THEN FromUtf8Lossy(buf)
    ELSE TruncationMarker(max) \o FromUtf8Lossy(SubSeq(buf, Len(buf) - max + 1, Len(buf)))

\* A faulty variant of TailBytes: the slice starts one byte early.
TailBytesOneMore(buf, max) ==
    IF Len(buf) <= max
    THEN FromUtf8Lossy(buf)
    ELSE TruncationMarker(max) \o FromUtf8Lossy(SubSeq(buf, Len(buf) - max, Len(buf)))

\* fn tail_bytes(buf: &[u8], max: usize) -> String
TailBytes(buf, max) ==
    IF Len(buf) <= max
    THEN FromUtf8Lossy(buf)
    ELSE TruncationMarker(max) \o FromUtf8Lossy(SubSeq(buf, Len(buf) - max + 1, Len(buf)))

\* An ExitStatus: the child exited with a code, or a signal killed it.
Exited(c) == [signaled |-> FALSE, code |-> c]

Signaled == [signaled |-> TRUE, code |-> -1]

\* ExitStatus::code(): Some(code) after a normal exit, None after a signal
StatusCode(st) == IF st.signaled THEN None ELSE Some(st.code)

\* The notifications main builds with format!.  `kind` is the fixed text of
\* the template, the other fields are what the template interpolates.
Msg(kind, cmd, code, out, err, fault) ==
    [kind |-> kind, cmd |-> cmd, code |-> code, out |-> out, err |-> err, fault |-> fault]

\* format!("Started\n{command}")
StartedMsg(cmd) == Msg("Started", cmd, None, <<>>, <<>>, "")

\* format!("Failed to execute command: {e}")
ExecFailedMsg(e) == Msg("Failed to execute command", <<>>, None, <<>>, <<>>, e)

\* match output.status.code() { Some(0) => .., Some(code) => .., None => .. }
TerminalMsg(output) ==
    LET c == StatusCode(output.status)
        o == TailBytes(output.stdout, TailMax)
        e == TailBytes(output.stderr, TailMax)
    IN  IF c = Some(0) THEN Msg("Finished successfully with exit code 0", <<>>, c, o, e, "")
        ELSE IF c # None THEN Msg("Failed with exit code", <<>>, c, o, e, "")
        ELSE Msg("Process terminated by signal", <<>>, c, o, e, "")

TerminalKinds ==
    {"Finished successfully with exit code 0", "Failed with exit code",
     "Process terminated by signal", "Failed to execute command"}

\* ------------------------------------------------------------------------
\* Inputs and environment
\* ------------------------------------------------------------------------

\* The argument lists tried (env::args().skip(1)).
ArgLists ==
    { <<>>, <<"--help">>, <<"-h">>, <<"--version">>, <<"-V">>, <<"--">>,
      <<"--", "exit", "7">>, <<"true">> }

\* Which of TG_BOT_TOKEN and TG_CHAT_ID are set.  (With both unset tg_send
\* fails at the token, as it does with the token alone unset.)
Envs ==
    { [token |-> TRUE, chat |-> TRUE], [token |-> FALSE, chat |-> TRUE],
      [token |-> TRUE, chat |-> FALSE] }

\* Exit codes a child may choose.
ExitCodes == {0, 7}

Statuses == {Exited(c) : c \in ExitCodes} \cup {Signaled}

\* What one HTTP round trip of a delivery can come to.
DeliveryOutcomes == {"2xx", "non2xx", "network error", "timeout"}

\* ------------------------------------------------------------------------
\* State
\* ------------------------------------------------------------------------

VARIABLES
    args,        \* the arguments of the invocation
    env,         \* which configuration variables are set
    world,       \* the environment's decisions so far
    mainPc,      \* where fn main (with run_bash inlined) stands
    command,     \* command_args.join(" ")
    exitCode,    \* the exit code of the supervisor, None while it runs
    workerPc,    \* the notifier thread: "none", "recv", "send", "done", "panicked"
    workerMsg,   \* the message the notifier thread is delivering
    queue,       \* the mpsc channel: messages sent and not yet received
    senderAlive, \* the Sender `notifier` exists and was not dropped
    enqueued,    \* history: messages the channel accepted, in order
    attempted,   \* history: messages for which tg_send was called, in order
    completed,   \* history: [msg, ok] of every tg_send that returned
    sendFailed,  \* history: some notifier.send returned Err (discarded by .ok())
    child,       \* the bash process: [state, pos, status]
    pipe,        \* per stream: bytes written by the child and not yet read
    readerOpen,  \* per stream: the read end (ChildStdout / ChildStderr) is open
    relay,       \* per stream: the read_stream thread [pc, tee, buf, chunk, flushed, ret]
    sink,        \* per stream: bytes written to the supervisor's stdout / stderr
    status,      \* the result of child.wait(), None before
    outBuf,      \* the result of stdout_handle.join(), None before
    runResult,   \* what run_bash returned to main, None before
    run,         \* 1 in the first execution, 2 in the re-execution
    prev,        \* what the first execution came to, None during it
    tail         \* a direct call of tail_bytes: [buf, max, ret]

vars ==
    <<args, env, world, mainPc, command, exitCode, workerPc, workerMsg, queue,
      senderAlive, enqueued, attempted, completed, sendFailed, child, pipe,
      readerOpen, relay, sink, status, outBuf, runResult, run, prev, tail>>

notifierVars ==
    <<workerPc, workerMsg, queue, senderAlive, enqueued, attempted, completed, sendFailed>>

runnerVars == <<child, pipe, readerOpen, relay, sink, status, outBuf, runResult>>

\* run_bash calls run_bash_with_tee(command, true).
Tee == TRUE

IdleRelay ==
    [pc |-> "none", tee |-> Tee, buf |-> <<>>, chunk |-> <<>>, flushed |-> 0, ret |-> None]

\* No direct call of tail_bytes is under way.
NoTail == [buf |-> <<>>, max |-> 0, ret |-> None]

NoChild == [state |-> "none", pos |-> 1, status |-> Signaled]

\* Nothing observed yet.  For each pipe, readFail is the number of bytes it
\* yields before its reads fail (None: not seen to fail) and readSafe a
\* number of bytes it is known to yield; sinkFail and sinkSafe are the same
\* for the bytes the supervisor's stdout / stderr accepts; flushFail tells
\* that a flush of the sink failed.
UndecidedWorld ==
    [spawnOk |-> None, script |-> <<>>, status |-> None, sigpipe |-> None,
     readFail |-> [s \in Streams |-> None], readSafe |-> [s \in Streams |-> 0],
     sinkFail |-> [s \in Streams |-> None], sinkSafe |-> [s \in Streams |-> 0],
     flushFail |-> [s \in Streams |-> FALSE], waitOk |-> None]

\* The state of a freshly started supervisor process.
ProcessStart ==
    /\ mainPc = "parse"
    /\ command = <<>>
    /\ exitCode = None
    /\ workerPc = "none"
    /\ workerMsg = None
    /\ queue = <<>>
    /\ senderAlive = FALSE
    /\ enqueued = <<>>
    /\ attempted = <<>>
    /\ completed = <<>>
    /\ sendFailed = FALSE
    /\ child = NoChild
    /\ pipe = [s \in Streams |-> <<>>]
    /\ readerOpen = [s \in Streams |-> FALSE]
    /\ relay = [s \in Streams |-> IdleRelay]
    /\ sink = [s \in Streams |-> <<>>]
    /\ status = None
    /\ outBuf = None
    /\ runResult = None

Init ==
    /\ args \in ArgLists
    /\ env \in Envs
    /\ world = UndecidedWorld
    /\ run = 1
    /\ prev = None
    /\ tail = NoTail
    /\ ProcessStart

\* The faults of the operating system met so far.
FaultCount ==
    (IF world.spawnOk = Some(FALSE) THEN 1 ELSE 0)
    + (IF world.waitOk = Some(FALSE) THEN 1 ELSE 0)
    + Cardinality({s \in Streams : world.readFail[s] # None})
    + Cardinality({s \in Streams : world.sinkFail[s] # None})
    + Cardinality({s \in Streams : world.flushFail[s]})

\* Another operation may still meet a fault.
MayFault == FaultCount < MaxFaults

\* The results an operation of the operating system can have: failure only
\* while MayFault.
OkOrFault == IF MayFault THEN BOOLEAN ELSE {TRUE}

\* The supervisor process is alive: its threads run until main returns or
\* std::process::exit is called.
Alive == mainPc # "done"

\* ------------------------------------------------------------------------
\* The notifier: start_notifier, the mpsc channel, tg_send
\* ------------------------------------------------------------------------

\* The Receiver lives as long as the worker's closure runs.
ReceiverAlive == workerPc \in {"recv", "send"}

\* notifier.send(m).ok(): the channel is unbounded, send never blocks; it
\* returns Err only when the Receiver is gone, and .ok() discards that.
ChannelSend(m) ==
    IF ReceiverAlive
    THEN /\ queue' = Append(queue, m)
         /\ enqueued' = Append(enqueued, m)
         /\ sendFailed' = sendFailed
    ELSE /\ queue' = queue
         /\ enqueued' = enqueued
         /\ sendFailed' = TRUE

\* A faulty variant of Receive: the worker takes the newest message first.
ReceiveNewest(q) == [msg |-> q[Len(q)], rest |-> SubSeq(q, 1, Len(q) - 1)]

\* `for msg in rx`: the next message is the oldest one in the channel.
Receive(q) == [msg |-> Head(q), rest |-> Tail(q)]

\* A faulty variant of Disconnected: the loop ends as soon as the Sender is dropped,
\* whatever the channel still holds.
DisconnectedAtDrop(q, alive) == ~alive

\* A faulty variant of Disconnected: the worker goes on waiting on the empty
\* channel after the Sender is dropped.
DisconnectedNever(q, alive) == FALSE

\* `for msg in rx` ends when the channel is empty and every Sender is dropped.
Disconnected(q, alive) == q = <<>> /\ ~alive

\* tg_send returns Ok(()) once .send() returned a response, whatever its
\* status (there is no error_for_status), and Err on every `?`.
TgSendOk(outcome) == outcome \in {"2xx", "non2xx"}

\* The outcomes tg_send can come to: env_required fails before any request
\* when a variable is missing, otherwise the request is made.
TgSendOutcomes(e) ==
    IF e.token /\ e.chat THEN DeliveryOutcomes ELSE {"missing configuration"}

\* A faulty variant of AfterDelivery: the worker leaves its loop at the first Err.
AfterDeliveryStopOnErr(ok) == IF ok THEN "recv" ELSE "done"

\* if let Err(e) = tg_send(&msg) { eprintln!(..) }: the loop goes on to the
\* next recv on Ok and on Err alike.
AfterDelivery(ok) == "recv"

\* let (tx, rx) = mpsc::channel(); let handle = thread::spawn(..)
StartNotifier ==
    /\ mainPc = "start_notifier"
    /\ mainPc' = "send_started"
    /\ workerPc' = "recv"
    /\ senderAlive' = TRUE
    /\ queue' = <<>>
    /\ UNCHANGED <<args, env, tail, world, command, exitCode, workerMsg, enqueued,
                   attempted, completed, sendFailed, runnerVars, run, prev>>

\* The worker takes the next message and calls tg_send on it.
WorkerRecv ==
    /\ Alive
    /\ workerPc = "recv"
    /\ queue # <<>>
    /\ LET r == Receive(queue)
       IN  /\ workerMsg' = Some(r.msg)
           /\ queue' = r.rest
           /\ attempted' = Append(attempted, r.msg)
    /\ workerPc' = "send"
    /\ UNCHANGED <<args, env, tail, world, mainPc, command, exitCode, senderAlive,
                   enqueued, completed, sendFailed, runnerVars, run, prev>>

\* tg_send returns; the worker logs an Err with eprintln! (taken to succeed)
\* and goes on.
WorkerDeliver ==
    /\ Alive
    /\ workerPc = "send"
    /\ \E o \in TgSendOutcomes(env) :
          /\ completed' = Append(completed, [msg |-> TheValue(workerMsg), ok |-> TgSendOk(o)])
          /\ workerPc' = AfterDelivery(TgSendOk(o))
    /\ workerMsg' = None
    /\ UNCHANGED <<args, env, tail, world, mainPc, command, exitCode, queue, senderAlive,
                   enqueued, attempted, sendFailed, runnerVars, run, prev>>

\* The iteration over rx ends; the closure returns and drops rx.
WorkerExit ==
    /\ Alive
    /\ workerPc = "recv"
    /\ Disconnected(queue, senderAlive)
    /\ workerPc' = "done"
    /\ UNCHANGED <<args, env, tail, world, mainPc, command, exitCode, workerMsg, queue,
                   senderAlive, enqueued, attempted, completed, sendFailed,
                   runnerVars, run, prev>>

\* ------------------------------------------------------------------------
\* fn main, up to the call of run_bash
\* ------------------------------------------------------------------------

\* std::process::exit(code), or the return from main (code 0)
ExitWith(code) ==
    /\ mainPc' = "done"
    /\ exitCode' = Some(code)

\* Lines 148-174: the argument checks and the join of the command.
ParseArgs ==
    /\ mainPc = "parse"
    /\ IF args = <<>> THEN ExitWith(UsageExit) /\ command' = command
       ELSE IF IsHelp(args) \/ IsVersion(args) THEN ExitWith(ReturnExit) /\ command' = command
       ELSE IF IsMissingCommand(args) THEN ExitWith(UsageExit) /\ command' = command
       ELSE /\ command' = Join(CommandArgs(args))
            /\ mainPc' = "start_notifier"
            /\ exitCode' = exitCode
    /\ UNCHANGED <<args, env, tail, world, notifierVars, runnerVars, run, prev>>

\* notifier.send(format!("Started\n{command}")).ok()
SendStarted ==
    /\ mainPc = "send_started"
    /\ ChannelSend(StartedMsg(command))
    /\ mainPc' = "spawn"
    /\ UNCHANGED <<args, env, tail, world, command, exitCode, workerPc, workerMsg,
                   senderAlive, attempted, completed, runnerVars, run, prev>>

\* ------------------------------------------------------------------------
\* run_bash_with_tee: the child, the pipes, the two read_stream threads
\* ------------------------------------------------------------------------

\* What a read_stream thread returns: Ok(buf) or Err(e).
RelayOk(bytes) == [ok |-> TRUE, bytes |-> bytes, err |-> ""]

RelayErr(e) == [ok |-> FALSE, bytes |-> <<>>, err |-> e]

\* What run_bash returns: Ok(Output) or Err(e).
NoOutput == [status |-> Signaled, stdout |-> <<>>, stderr |-> <<>>]

RunOk(st, out, err) ==
    [ok |-> TRUE, output |-> [status |-> st, stdout |-> out, stderr |-> err], err |-> ""]

RunErr(e) == [ok |-> FALSE, output |-> NoOutput, err |-> e]

\* A faulty variant of BuildOutput: the two captured buffers change places.
BuildOutputSwapped(st, o, e) ==
    IF ~o.ok THEN RunErr(o.err)
    ELSE IF ~e.ok THEN RunErr(e.err)
    ELSE RunOk(st, e.bytes, o.bytes)

\* Ok(Output { status, stdout: out_buf?, stderr: err_buf? }): the fields are
\* evaluated in order, so a fault of the stdout relay is returned first.
BuildOutput(st, o, e) ==
    IF ~o.ok THEN RunErr(o.err)
    ELSE IF ~e.ok THEN RunErr(e.err)
    ELSE RunOk(st, o.bytes, e.bytes)

\* Command::new("bash")...spawn()?  (the two .take() of a piped stream
\* always yield Some, so their ok_or_else never returns)
Spawn ==
    /\ mainPc = "spawn"
    /\ \E ok \in Choices(world.spawnOk, OkOrFault) :
          /\ world' = [world EXCEPT !.spawnOk = Some(ok)]
          /\ IF ok
             THEN /\ child' = [state |-> "running", pos |-> 1, status |-> Signaled]
                  /\ readerOpen' = [s \in Streams |-> TRUE]
                  /\ mainPc' = "spawn_stdout_relay"
                  /\ runResult' = runResult
             ELSE /\ runResult' = Some(RunErr("spawn"))
                  /\ mainPc' = "send_exec_failed"
                  /\ UNCHANGED <<child, readerOpen>>
    /\ UNCHANGED <<args, env, tail, command, exitCode, notifierVars, pipe, relay, sink,
                   status, outBuf, run, prev>>

\* let stdout_handle = std::thread::spawn(move || read_stream(stdout, ..))
SpawnStdoutRelay ==
    /\ mainPc = "spawn_stdout_relay"
    /\ relay' = [relay EXCEPT !["out"].pc = "read", !["out"].tee = Tee]
    /\ mainPc' = "spawn_stderr_relay"
    /\ UNCHANGED <<args, env, tail, world, command, exitCode, notifierVars, child, pipe,
                   readerOpen, sink, status, outBuf, runResult, run, prev>>

\* A faulty variant of SpawnStderrRelay: no thread drains the child's stderr
\* while the child runs.
SpawnStderrRelayNotStarted ==
    /\ mainPc = "spawn_stderr_relay"
    /\ mainPc' = "wait"
    /\ UNCHANGED <<args, env, tail, world, command, exitCode, notifierVars, child, pipe,
                   readerOpen, relay, sink, status, outBuf, runResult, run, prev>>

\* let stderr_handle = std::thread::spawn(move || read_stream(stderr, ..))
SpawnStderrRelay ==
    /\ mainPc = "spawn_stderr_relay"
    /\ relay' = [relay EXCEPT !["err"].pc = "read", !["err"].tee = Tee]
    /\ mainPc' = "wait"
    /\ UNCHANGED <<args, env, tail, world, command, exitCode, notifierVars, child, pipe,
                   readerOpen, sink, status, outBuf, runResult, run, prev>>

\* The streams the child may write to next: the next write of its script,
\* or, at the end of a script that is still open, any stream.
ChildOps ==
    IF child.pos <= Len(world.script) THEN {world.script[child.pos]}
    ELSE IF world.status = None /\ Len(world.script) < MaxWrites THEN Streams
    ELSE {}

\* The child writes one byte (the number of the write) to one of its streams.
\* A write to a full pipe blocks; a write to a pipe whose read end is closed
\* raises SIGPIPE, which kills the child unless it ignores the signal.
ChildWrite ==
    /\ Alive
    /\ child.state = "running"
    /\ \E s \in ChildOps :
          LET committed == [world EXCEPT !.script =
                               IF child.pos > Len(@) THEN Append(@, s) ELSE @]
          IN  IF ~readerOpen[s]
              THEN \E k \in Choices(world.sigpipe, {"kill", "ignore"}) :
                      /\ world' = [committed EXCEPT !.sigpipe = Some(k)]
                      /\ child' = IF k = "kill"
                                  THEN [child EXCEPT !.state = "exited", !.status = Signaled]
                                  ELSE [child EXCEPT !.pos = @ + 1]
                      /\ pipe' = pipe
              ELSE IF Len(pipe[s]) < PipeCap
              THEN /\ world' = committed
                   /\ pipe' = [pipe EXCEPT ![s] = Append(@, child.pos)]
                   /\ child' = [child EXCEPT !.pos = @ + 1]
              ELSE /\ committed # world
                   /\ world' = committed
                   /\ UNCHANGED <<child, pipe>>
    /\ UNCHANGED <<args, env, tail, mainPc, command, exitCode, notifierVars, readerOpen,
                   relay, sink, status, outBuf, runResult, run, prev>>

\* The child ends, by exit(code) or killed by a signal; its pipe ends close.
ChildExit ==
    /\ Alive
    /\ child.state = "running"
    /\ child.pos > Len(world.script)
    /\ \E st \in Choices(world.status, Statuses) :
          /\ world' = [world EXCEPT !.status = Some(st)]
          /\ child' = [child EXCEPT !.state = "exited", !.status = st]
    /\ UNCHANGED <<args, env, tail, mainPc, command, exitCode, notifierVars, pipe,
                   readerOpen, relay, sink, status, outBuf, runResult, run, prev>>

\* read_stream returns: the thread ends and drops its reader.
RelayReturn(s, result) ==
    /\ relay' = [relay EXCEPT ![s] = [pc |-> "done", tee |-> @.tee, buf |-> <<>>,
                                      chunk |-> <<>>, flushed |-> @.flushed,
                                      ret |-> Some(result)]]
    /\ readerOpen' = [readerOpen EXCEPT ![s] = FALSE]

\* let read = reader.read(&mut chunk)?; if read == 0 { break; }
\* A read fails when the pipe has yielded world.readFail[s] bytes; otherwise
\* it returns between 1 byte and what the pipe holds, 0 at end-of-stream, and
\* blocks on an empty pipe whose write end is still open.
RelayRead(s) ==
    /\ Alive
    /\ relay[s].pc = "read"
    /\ LET consumed == Len(relay[s].buf)
           fail == world.readFail[s]
           safe == world.readSafe[s]
           readable == IF fail = None THEN Len(pipe[s])
                       ELSE Min(Len(pipe[s]), TheValue(fail) - consumed)
           learn(n) == IF fail = None
                       THEN [world EXCEPT !.readSafe[s] = Max(@, n)]
                       ELSE world
       IN  \/ /\ fail = Some(consumed) \/ (fail = None /\ consumed >= safe /\ MayFault)
              /\ world' = [world EXCEPT !.readFail[s] = Some(consumed)]
              /\ RelayReturn(s, RelayErr("read"))
              /\ UNCHANGED <<pipe, sink>>
           \/ /\ fail # Some(consumed)
              /\ \E n \in 1 .. Min(readable, ChunkSize) :
                    /\ world' = learn(consumed + n)
                    /\ pipe' = [pipe EXCEPT ![s] = SubSeq(@, n + 1, Len(@))]
                    /\ relay' = [relay EXCEPT ![s].chunk = SubSeq(pipe[s], 1, n),
                                              ![s].pc = "write"]
                    /\ UNCHANGED <<readerOpen, sink>>
           \/ /\ fail # Some(consumed)
              /\ pipe[s] = <<>>
              /\ child.state = "exited"
              /\ world' = learn(consumed + 1)
              /\ RelayReturn(s, RelayOk(relay[s].buf))
              /\ UNCHANGED <<pipe, sink>>
    /\ UNCHANGED <<args, env, tail, mainPc, command, exitCode, notifierVars, child,
                   status, outBuf, runResult, run, prev>>

\* read_stream(stdout, std::io::stdout(), tee) writes to a line-buffered
\* writer, whose flush writes what it holds and can fail;
\* read_stream(stderr, std::io::stderr(), tee) writes to an unbuffered one,
\* whose flush does nothing and returns Ok.
FlushCanFail(s) == s = "out"

\* The results writer.flush() can have: Ok, and Err as well while no flush
\* of this sink failed yet and another fault may be met.
FlushOutcomes(s) ==
    IF FlushCanFail(s) /\ ~world.flushFail[s] /\ MayFault THEN BOOLEAN ELSE {TRUE}

\* writer.flush().ok(): the Result is discarded, so after Ok and after Err
\* alike read_stream goes on to extend buf and to read the next chunk.
AfterFlush(ok) == "read"

\* A faulty variant of SinkWrite: the chunk is written whatever tee says.
SinkWriteAlways(tee, chunk) == chunk

\* if tee { writer.write_all(&chunk[..read])?; .. }: the bytes handed to the
\* writer, none when tee is false.
SinkWrite(tee, chunk) == IF tee THEN chunk ELSE <<>>

\* The rest of the loop body after a read of at least one byte:
\* if tee { writer.write_all(&chunk[..read])?; writer.flush().ok(); }
\* buf.extend_from_slice(&chunk[..read]);
\* write_all fails when the sink has accepted world.sinkFail[s] bytes, after
\* writing the part of the chunk the sink still accepts.
RelayWrite(s) ==
    /\ Alive
    /\ relay[s].pc = "write"
    /\ LET c == SinkWrite(relay[s].tee, relay[s].chunk)
           written == Len(sink[s])
           fail == world.sinkFail[s]
           safe == world.sinkSafe[s]
           failAt == IF fail # None THEN {k \in fail : k < written + Len(c)}
                     ELSE IF MayFault THEN Max(written, safe) .. (written + Len(c) - 1)
                     ELSE {}
       IN  \/ \E k \in failAt :
                 /\ world' = [world EXCEPT !.sinkFail[s] = Some(k)]
                 /\ sink' = [sink EXCEPT ![s] = @ \o SubSeq(c, 1, k - written)]
                 /\ RelayReturn(s, RelayErr("write"))
           \/ /\ fail = None \/ failAt = {}
              /\ \E ok \in (IF relay[s].tee THEN FlushOutcomes(s) ELSE {TRUE}) :
                    /\ world' = [world EXCEPT
                          !.sinkSafe[s] = IF fail = None THEN Max(@, written + Len(c)) ELSE @,
                          !.flushFail[s] = @ \/ ~ok]
                    /\ relay' = [relay EXCEPT
                          ![s].buf = @ \o relay[s].chunk,
                          ![s].chunk = <<>>,
                          ![s].flushed = IF relay[s].tee /\ ok THEN written + Len(c) ELSE @,
                          ![s].pc = AfterFlush(ok)]
              /\ sink' = [sink EXCEPT ![s] = @ \o c]
              /\ readerOpen' = readerOpen
    /\ UNCHANGED <<args, env, tail, mainPc, command, exitCode, notifierVars, child, pipe,
                   status, outBuf, runResult, run, prev>>

\* A faulty variant of Wait: once a relay has failed the runner returns that
\* fault at once, whether or not the child has ended.
WaitUnlessRelayFailed ==
    /\ mainPc = "wait"
    /\ LET failed == {s \in Streams : relay[s].ret # None /\ ~TheValue(relay[s].ret).ok}
       IN  IF failed # {}
           THEN /\ runResult' = Some(RunErr(TheValue(relay[CHOOSE s \in failed : TRUE].ret).err))
                /\ mainPc' = "send_exec_failed"
                /\ UNCHANGED <<world, status>>
           ELSE /\ child.state = "exited"
                /\ \E ok \in Choices(world.waitOk, OkOrFault) :
                      /\ world' = [world EXCEPT !.waitOk = Some(ok)]
                      /\ IF ok
                         THEN /\ status' = Some(child.status)
                              /\ mainPc' = "join_stdout"
                              /\ runResult' = runResult
                         ELSE /\ runResult' = Some(RunErr("wait"))
                              /\ mainPc' = "send_exec_failed"
                              /\ status' = status
    /\ UNCHANGED <<args, env, tail, command, exitCode, notifierVars, child, pipe,
                   readerOpen, relay, sink, outBuf, run, prev>>

\* let status = child.wait()?;
Wait ==
    /\ mainPc = "wait"
    /\ child.state = "exited"
    /\ \E ok \in Choices(world.waitOk, OkOrFault) :
          /\ world' = [world EXCEPT !.waitOk = Some(ok)]
          /\ IF ok
             THEN /\ status' = Some(child.status)
                  /\ mainPc' = "join_stdout"
                  /\ runResult' = runResult
             ELSE /\ runResult' = Some(RunErr("wait"))
                  /\ mainPc' = "send_exec_failed"
                  /\ status' = status
    /\ UNCHANGED <<args, env, tail, command, exitCode, notifierVars, child, pipe,
                   readerOpen, relay, sink, outBuf, run, prev>>

\* let out_buf = stdout_handle.join().map_err(..)?;
\* (join returns Err only if the thread panicked, which read_stream does not)
JoinStdout ==
    /\ mainPc = "join_stdout"
    /\ relay["out"].ret # None
    /\ outBuf' = relay["out"].ret
    /\ mainPc' = "join_stderr"
    /\ UNCHANGED <<args, env, tail, world, command, exitCode, notifierVars, child, pipe,
                   readerOpen, relay, sink, status, runResult, run, prev>>

\* let err_buf = stderr_handle.join().map_err(..)?; Ok(Output { .. })
\* and run_bash's map_err, which keeps the fault and adds the command to it.
JoinStderr ==
    /\ mainPc = "join_stderr"
    /\ relay["err"].ret # None
    /\ LET r == BuildOutput(TheValue(status), TheValue(outBuf), TheValue(relay["err"].ret))
       IN  /\ runResult' = Some(r)
           /\ mainPc' = IF r.ok THEN "send_terminal" ELSE "send_exec_failed"
    /\ UNCHANGED <<args, env, tail, world, command, exitCode, notifierVars, child, pipe,
                   readerOpen, relay, sink, status, outBuf, run, prev>>

\* ------------------------------------------------------------------------
\* fn main, after run_bash returned
\* ------------------------------------------------------------------------

\* A faulty variant of SendExecFailed: the Err arm sends nothing.
SendExecFailedSilent ==
    /\ mainPc = "send_exec_failed"
    /\ mainPc' = "drop"
    /\ UNCHANGED <<args, env, tail, world, command, exitCode, notifierVars, runnerVars, run, prev>>

\* Err(e) => notifier.send(format!("Failed to execute command: {e}")).ok()
SendExecFailed ==
    /\ mainPc = "send_exec_failed"
    /\ ChannelSend(ExecFailedMsg(TheValue(runResult).err))
    /\ mainPc' = "drop"
    /\ UNCHANGED <<args, env, tail, world, command, exitCode, workerPc, workerMsg,
                   senderAlive, attempted, completed, runnerVars, run, prev>>

\* match output.status.code() { .. notifier.send(format!(..)).ok() .. }
SendTerminal ==
    /\ mainPc = "send_terminal"
    /\ ChannelSend(TerminalMsg(TheValue(runResult).output))
    /\ mainPc' = "drop"
    /\ UNCHANGED <<args, env, tail, world, command, exitCode, workerPc, workerMsg,
                   senderAlive, attempted, completed, runnerVars, run, prev>>

\* A faulty variant of DropNotifier: main goes on to the join with its Sender
\* still alive.
DropNotifierKeepsSender ==
    /\ mainPc = "drop"
    /\ mainPc' = "join_worker"
    /\ UNCHANGED <<args, env, tail, world, command, exitCode, notifierVars,
                   runnerVars, run, prev>>

\* drop(notifier)
DropNotifier ==
    /\ mainPc = "drop"
    /\ senderAlive' = FALSE
    /\ mainPc' = "join_worker"
    /\ UNCHANGED <<args, env, tail, world, command, exitCode, workerPc, workerMsg, queue,
                   enqueued, attempted, completed, sendFailed, runnerVars, run, prev>>

\* A faulty variant of JoinWorker: main exits with 1 when a delivery failed.
JoinWorkerReportsDelivery ==
    /\ mainPc = "join_worker"
    /\ workerPc \in {"done", "panicked"}
    /\ ExitWith(IF \E i \in 1 .. Len(completed) : ~completed[i].ok THEN 1 ELSE ReturnExit)
    /\ UNCHANGED <<args, env, tail, world, command, notifierVars, runnerVars, run, prev>>

\* handle.join().ok(); and main returns: on the Err path by `return`, on the
\* Ok path by reaching the end of main.  Neither path sets an exit code.
JoinWorker ==
    /\ mainPc = "join_worker"
    /\ workerPc \in {"done", "panicked"}
    /\ ExitWith(ReturnExit)
    /\ UNCHANGED <<args, env, tail, world, command, notifierVars, runnerVars, run, prev>>

\* ------------------------------------------------------------------------
\* Specifications
\* ------------------------------------------------------------------------

\* Every tg_send call so far returned Ok.
AllDelivered == \A i \in 1 .. Len(completed) : completed[i].ok

\* The messages of the tg_send calls that returned so far, in order.
CompletedMsgs == [i \in 1 .. Len(completed) |-> completed[i].msg]

\* The same invocation is executed a second time, in the same environment.
Rerun ==
    /\ mainPc = "done"
    /\ run = 1
    /\ run' = 2
    /\ prev' = Some([exit |-> exitCode, result |-> runResult,
                      allDelivered |-> AllDelivered])
    /\ mainPc' = "parse"
    /\ command' = <<>>
    /\ exitCode' = None
    /\ workerPc' = "none"
    /\ workerMsg' = None
    /\ queue' = <<>>
    /\ senderAlive' = FALSE
    /\ enqueued' = <<>>
    /\ attempted' = <<>>
    /\ completed' = <<>>
    /\ sendFailed' = FALSE
    /\ child' = NoChild
    /\ pipe' = [s \in Streams |-> <<>>]
    /\ readerOpen' = [s \in Streams |-> FALSE]
    /\ relay' = [s \in Streams |-> IdleRelay]
    /\ sink' = [s \in Streams |-> <<>>]
    /\ status' = None
    /\ outBuf' = None
    /\ runResult' = None
    /\ UNCHANGED <<args, env, tail, world>>

Next ==
    \/ ParseArgs
    \/ StartNotifier
    \/ SendStarted
    \/ Spawn
    \/ SpawnStdoutRelay
    \/ SpawnStderrRelay
    \/ Wait
    \/ JoinStdout
    \/ JoinStderr
    \/ SendExecFailed
    \/ SendTerminal
    \/ DropNotifier
    \/ JoinWorker
    \/ WorkerRecv
    \/ WorkerDeliver
    \/ WorkerExit
    \/ ChildWrite
    \/ ChildExit
    \/ \E s \in Streams : RelayRead(s)
    \/ \E s \in Streams : RelayWrite(s)

Spec == Init /\ [][Next]_vars

\* The steps of each thread and of the child process.
MainStep ==
    \/ ParseArgs
    \/ StartNotifier
    \/ SendStarted
    \/ Spawn
    \/ SpawnStdoutRelay
    \/ SpawnStderrRelay
    \/ Wait
    \/ JoinStdout
    \/ JoinStderr
    \/ SendExecFailed
    \/ SendTerminal
    \/ DropNotifier
    \/ JoinWorker

WorkerStep == WorkerRecv \/ WorkerDeliver \/ WorkerExit

ChildStep == ChildWrite \/ ChildExit

RelayStep(s) == RelayRead(s) \/ RelayWrite(s)

\* The operating system schedules every thread that can run, and the child;
\* every tg_send returns (the request has a timeout of 10 seconds) and the
\* child ends once its writes are done.
Fairness ==
    /\ WF_vars(MainStep)
    /\ WF_vars(WorkerStep)
    /\ WF_vars(ChildStep)
    /\ \A s \in Streams : WF_vars(RelayStep(s))

\* One invocation that runs a command, with both configuration variables set.
InitFair == Init /\ env.token /\ env.chat /\ args = <<"--", "exit", "7">>

SpecFair == InitFair /\ [][Next]_vars /\ Fairness

\* The byte sources a direct call of read_stream is given, as the stream
\* each byte belongs to.
RECURSIVE Sources(_)
Sources(n) ==
    IF n = 0 THEN {<<>>}
    ELSE Sources(n - 1) \cup {Append(sc, s) : sc \in Sources(n - 1), s \in Streams}

\* A function of the program is called directly, as the unit tests do: fn
\* main does not run, and neither does the notifier.
DirectCall ==
    /\ args = <<>>
    /\ env = [token |-> TRUE, chat |-> TRUE]
    /\ run = 1
    /\ prev = None
    /\ mainPc = "direct call"
    /\ command = <<>>
    /\ exitCode = None
    /\ workerPc = "none"
    /\ workerMsg = None
    /\ queue = <<>>
    /\ senderAlive = FALSE
    /\ enqueued = <<>>
    /\ attempted = <<>>
    /\ completed = <<>>
    /\ sendFailed = FALSE
    /\ status = None
    /\ outBuf = None
    /\ runResult = None

\* read_stream(reader, writer, tee) called directly, once per stream: the
\* reader is a finite source (a pipe whose writer wrote the bytes of the
\* source and is gone), tee is either value.
InitReadStream ==
    /\ DirectCall
    /\ tail = NoTail
    /\ \E sc \in Sources(MaxSource) :
          /\ world = [UndecidedWorld EXCEPT !.script = sc, !.status = Some(Exited(0))]
          /\ child = [state |-> "exited", pos |-> Len(sc) + 1, status |-> Exited(0)]
          /\ pipe = [s \in Streams |->
                        SelectSeq([i \in 1 .. Len(sc) |-> i], LAMBDA i : sc[i] = s)]
    /\ readerOpen = [s \in Streams |-> TRUE]
    /\ \E t \in [Streams -> BOOLEAN] :
          relay = [s \in Streams |-> [IdleRelay EXCEPT !.pc = "read", !.tee = t[s]]]
    /\ sink = [s \in Streams |-> <<>>]

NextReadStream ==
    \/ \E s \in Streams : RelayRead(s)
    \/ \E s \in Streams : RelayWrite(s)

SpecReadStream == InitReadStream /\ [][NextReadStream]_vars

\* The bytes a buffer given to tail_bytes is made of: 'a', and the two
\* bytes of U+00E9, which a cut can separate.
TestBytes == {97, 195, 169}

RECURSIVE Buffers(_)
Buffers(n) ==
    IF n = 0 THEN {<<>>}
    ELSE Buffers(n - 1) \cup {Append(b, x) : b \in Buffers(n - 1), x \in TestBytes}

\* tail_bytes(buf, max) called directly on any buffer and any max.
InitTailBytes ==
    /\ DirectCall
    /\ \E b \in Buffers(MaxBuf), m \in 0 .. MaxTail : tail = [buf |-> b, max |-> m, ret |-> None]
    /\ world = UndecidedWorld
    /\ child = NoChild
    /\ pipe = [s \in Streams |-> <<>>]
    /\ readerOpen = [s \in Streams |-> FALSE]
    /\ relay = [s \in Streams |-> IdleRelay]
    /\ sink = [s \in Streams |-> <<>>]

\* The call returns.
TailBytesCall ==
    /\ mainPc = "direct call"
    /\ tail.ret = None
    /\ tail' = [tail EXCEPT !.ret = Some(TailBytes(tail.buf, tail.max))]
    /\ UNCHANGED <<args, env, world, mainPc, command, exitCode, notifierVars,
                   runnerVars, run, prev>>

NextTailBytes == TailBytesCall

SpecTailBytes == InitTailBytes /\ [][NextTailBytes]_vars

NextTwoRuns == Next \/ Rerun

\* Both configuration variables set: every delivery makes its request, and
\* the outcome of each is open.  The command is opaque to the supervisor, so
\* one invocation that runs a command stands for all of them.
InitTwoRuns == Init /\ env.token /\ env.chat /\ args # <<"true">>

SpecTwoRuns == InitTwoRuns /\ [][NextTwoRuns]_vars

\* ------------------------------------------------------------------------
\* Properties
\* ------------------------------------------------------------------------

\* run_bash has returned Ok(output) to main.
Captured == runResult # None /\ TheValue(runResult).ok

\* The ExecutionResult main holds, once Captured.
Output == TheValue(runResult).output

\* main has returned after handle.join(): the shutdown of the notifier is over.
ShutdownReturned == mainPc = "done" /\ workerPc # "none"

\* The child was created by spawn.
Spawned == child.state # "none"

\* The exit code tests/e2e.rs expects after a spawn failure.
SpawnFailureExit == 1

\* C1: whenever the runner returned a result that carries the child's exit
\* code, the supervisor's own exit code is that code.
C1_ExitCodeIsChildCode ==
    (mainPc = "done" /\ Captured /\ StatusCode(Output.status) # None)
        => exitCode = StatusCode(Output.status)

\* Two results of run_bash carry the same ExecutionResult: both or neither
\* returned, both Ok or both Err, and an Ok holds the same status and bytes.
SameCaptured(a, b) ==
    /\ (a = None) = (b = None)
    /\ a # None => /\ TheValue(a).ok = TheValue(b).ok
                   /\ TheValue(a).ok => TheValue(a).output = TheValue(b).output

\* C2: no delivery fault leaves the worker (its thread never panics), and a
\* second execution of the same invocation in the same environment, whose
\* deliveries may end differently, ends with the same exit code and the same
\* captured ExecutionResult as the first.
C2_DeliveryDoesNotInterfere ==
    /\ workerPc # "panicked"
    /\ (run = 2 /\ mainPc = "done")
          => /\ exitCode = TheValue(prev).exit
             /\ SameCaptured(runResult, TheValue(prev).result)

\* C2 witness: the second execution has ended with a captured result after
\* deliveries that ended differently from those of the first execution.
C2_Witness ==
    /\ run = 2
    /\ mainPc = "done"
    /\ Captured
    /\ Len(completed) = 2
    /\ AllDelivered # TheValue(prev).allDelivered

\* C3: the messages whose delivery attempt has started are, in order, a
\* prefix of the messages enqueued; "Started" is never attempted after the
\* terminal message.
C3_AttemptsInEnqueueOrder ==
    /\ IsPrefix(attempted, enqueued)
    /\ \A i, j \in 1 .. Len(attempted) :
          (attempted[i].kind \in TerminalKinds /\ attempted[j].kind = "Started") => j < i

\* C3 witness: both messages of a run have been attempted.
C3_Witness ==
    /\ Len(attempted) = 2
    /\ attempted[1].kind = "Started"
    /\ attempted[2].kind \in TerminalKinds

\* C4: the worker has terminated only if the sender was dropped and the
\* channel is empty, and when the shutdown (drop, then join) has returned,
\* every message enqueued has had a delivery attempt that completed.
C4_DrainThenStop ==
    /\ workerPc = "done" => (~senderAlive /\ queue = <<>>)
    /\ ShutdownReturned => (CompletedMsgs = enqueued /\ workerMsg = None)

\* C4 witness: the shutdown has returned after two messages were enqueued.
C4_Witness == ShutdownReturned /\ Len(enqueued) = 2 /\ Len(completed) = 2

\* main stands at one of its three sends.
AtSend == mainPc \in {"send_started", "send_exec_failed", "send_terminal"}

\* C5: a failed delivery neither stops the worker nor is retried, and no
\* send blocks or fails: the worker does not end while the sender lives,
\* tg_send has returned at most once per message attempted, a send of main
\* can always be taken and every one was accepted, and after the shutdown
\* every message enqueued, those after a failed one included, has had
\* exactly one attempt.
C5_FailureNeitherStopsNorRetries ==
    /\ workerPc \in {"done", "panicked"} => ~senderAlive
    /\ IsPrefix(CompletedMsgs, attempted)
    /\ Len(attempted) <= Len(completed) + 1
    /\ AtSend => ENABLED (SendStarted \/ SendExecFailed \/ SendTerminal)
    /\ ~sendFailed
    /\ ShutdownReturned => Len(completed) = Len(enqueued)

\* C5 witness: a delivery failed and the message enqueued after it has had
\* its attempt; the shutdown has returned.
C5_Witness ==
    /\ ShutdownReturned
    /\ Len(completed) = 2
    /\ ~completed[1].ok
    /\ completed[2].msg = enqueued[2]

\* C6: an invocation that reached Started has enqueued "Started" with the
\* command text first, the child is spawned only after that, the second and
\* last message is a terminal one enqueued after the runner returned (the
\* execution-fault message exactly when the runner returned a fault), and at
\* the end exactly two messages were enqueued.
C6_StartedThenOneTerminal ==
    /\ Len(enqueued) <= 2
    /\ Len(enqueued) >= 1 =>
          /\ enqueued[1].kind = "Started"
          /\ enqueued[1].cmd = command
          /\ command # <<>>
    /\ (Spawned \/ runResult # None) => Len(enqueued) >= 1
    /\ Len(enqueued) = 2 =>
          /\ runResult # None
          /\ enqueued[2].kind \in TerminalKinds
          /\ (enqueued[2].kind = "Failed to execute command") = ~Captured
    /\ ShutdownReturned => Len(enqueued) = 2

\* C6 witness: a run ended after the child wrote MaxWrites bytes, with two
\* messages enqueued.
C6_Witness ==
    /\ ShutdownReturned
    /\ Captured
    /\ Len(Output.stdout) + Len(Output.stderr) = MaxWrites
    /\ Len(enqueued) = 2

\* C7: after a spawn failure the supervisor has enqueued the failure
\* notification and exits with the fixed non-zero code 1.
C7_SpawnFailureExitsNonZero ==
    (mainPc = "done" /\ runResult = Some(RunErr("spawn")))
        => /\ Len(enqueued) = 2
           /\ enqueued[2] = ExecFailedMsg("spawn")
           /\ exitCode # Some(0)
           /\ exitCode = Some(SpawnFailureExit)

\* C8: when a signal ended the child (the result holds no exit code), the
\* supervisor's exit code is neither 0 nor the spawn-failure code.
C8_SignalExitCodeDistinct ==
    (mainPc = "done" /\ Captured /\ StatusCode(Output.status) = None)
        => /\ exitCode # Some(0)
           /\ exitCode # Some(SpawnFailureExit)

\* C9: with no arguments, or with a lone "--", main only ever exits with
\* code 2: the notifier is never started, nothing is enqueued or attempted,
\* and no child is spawned.
C9_UsageErrorBeforeStarted ==
    (args = <<>> \/ args = <<"--">>)
        => /\ mainPc \in {"parse", "done"}
           /\ mainPc = "done" => exitCode = Some(UsageExit)
           /\ workerPc = "none"
           /\ enqueued = <<>>
           /\ attempted = <<>>
           /\ ~Spawned

\* C9 witness: main has exited on a lone "--".
C9_Witness == args = <<"--">> /\ mainPc = "done" /\ exitCode = Some(UsageExit)

\* Both read_stream threads were started.
RelaysStarted == \A s \in Streams : relay[s].pc # "none"

\* C10: once the child is spawned, the runner has returned (a result or a
\* fault) only if the child has exited and both relays have finished; the
\* wait on the child begins only after both relays were started; and a
\* returned ExecutionResult implies that both relays read to end-of-stream.
C10_RunnerReturnsAfterAllThree ==
    /\ (Spawned /\ runResult # None)
          => /\ child.state = "exited"
             /\ \A s \in Streams : relay[s].ret # None
    /\ mainPc = "wait" => RelaysStarted
    /\ Captured => \A s \in Streams : relay[s].ret # None /\ TheValue(relay[s].ret).ok

\* The child's next write is to a pipe that is full and still read.
ChildBlocked ==
    /\ child.state = "running"
    /\ child.pos <= Len(world.script)
    /\ readerOpen[world.script[child.pos]]
    /\ Len(pipe[world.script[child.pos]]) >= PipeCap

\* C11: under fair scheduling a child blocked on a full pipe is unblocked,
\* and once the runner waits on the child it returns; on a fault-free run
\* the child has exited, both relays have read to end-of-stream and the
\* runner has returned an ExecutionResult.
C11_NoBackPressureDeadlock ==
    /\ ChildBlocked ~> ~ChildBlocked
    /\ (mainPc = "wait") ~> (runResult # None)
    /\ (mainPc = "wait")
          ~> \/ FaultCount > 0
             \/ /\ child.state = "exited"
                /\ \A s \in Streams : relay[s].ret # None /\ TheValue(relay[s].ret).ok
                /\ Captured

\* C11 witness: the child is blocked on the full stderr pipe while the
\* stdout relay waits on an empty stdout pipe.
C11_Witness ==
    /\ ChildBlocked
    /\ world.script[child.pos] = "err"
    /\ pipe["out"] = <<>>
    /\ relay["out"].pc = "read"
    /\ FaultCount = 0

\* The bytes the child has written to stream s, in the order of its writes
\* (a byte is the number of the write that wrote it).
WrittenTo(s) ==
    SelectSeq([i \in 1 .. (child.pos - 1) |-> i], LAMBDA i : world.script[i] = s)

\* C12: a captured ExecutionResult holds, per stream, exactly the bytes the
\* child wrote to that stream, in write order, and the child's exit status.
C12_CapturedEqualsWritten ==
    Captured =>
        /\ Output.stdout = WrittenTo("out")
        /\ Output.stderr = WrittenTo("err")
        /\ Output.status = child.status

\* C12 witness: a fault-free run is captured in which the child wrote to
\* stderr first and to stdout second.
C12_Witness ==
    /\ Captured
    /\ FaultCount = 0
    /\ Output.stdout = <<2>>
    /\ Output.stderr = <<1>>

\* C13: a relay with tee = false never writes its sink; a relay with
\* tee = true has, whenever it is about to read, written to its sink exactly
\* the bytes it accumulated, all of them flushed unless a flush failed; a
\* relay that returned Ok returns the full source, and with tee = true its
\* sink holds the full source as well.
C13_RelayTeesEachChunk ==
    \A s \in Streams :
        LET r == relay[s]
        IN  /\ ~r.tee => (sink[s] = <<>> /\ r.flushed = 0)
            /\ (r.tee /\ r.pc = "read") =>
                   /\ sink[s] = r.buf
                   /\ ~world.flushFail[s] => r.flushed = Len(r.buf)
            /\ (r.ret # None /\ TheValue(r.ret).ok) =>
                   /\ TheValue(r.ret).bytes = WrittenTo(s)
                   /\ r.tee => sink[s] = WrittenTo(s)

\* C13 witness: a relay with tee = false and a relay with tee = true have
\* both returned Ok, from a source of one byte and a source of two bytes.
C13_Witness ==
    /\ ~relay["out"].tee
    /\ relay["err"].tee
    /\ \A s \in Streams : relay[s].ret # None /\ TheValue(relay[s].ret).ok
    /\ Len(WrittenTo("out")) = 1
    /\ Len(WrittenTo("err")) = 2

\* The last k bytes of b.
LastBytes(b, k) == [i \in 1 .. k |-> b[Len(b) - k + i]]

\* What follows the first k code points of a string.
After(str, k) == SubSeq(str, k + 1, Len(str))

\* C14: tail_bytes(b, max) is the lossy decode of all of b, with no marker,
\* when b has at most max bytes, and otherwise the marker naming max
\* followed by the lossy decode of exactly the last max bytes of b.
C14_TailIsWholeOrMarkedSuffix ==
    tail.ret # None =>
        LET b == tail.buf
            out == TheValue(tail.ret)
            marker == TruncationMarker(tail.max)
        IN  IF Len(b) <= tail.max
            THEN out = FromUtf8Lossy(b)
            ELSE /\ IsPrefix(marker, out)
                 /\ After(out, Len(marker)) = FromUtf8Lossy(LastBytes(b, tail.max))

\* C14 witness: tail_bytes returned for a buffer longer than max that the
\* cut splits inside a character: the marker and one U+FFFD.
C14_Witness ==
    /\ tail.buf = <<97, 195, 169>>
    /\ tail.max = 1
    /\ tail.ret = Some(TruncationMarker(1) \o <<Replacement>>)

\* C19 as stated: tail_bytes(data, 0) is just the truncation marker for
\* every data.
C19_ZeroMaxIsJustMarker ==
    (tail.max = 0 /\ tail.ret # None) => TheValue(tail.ret) = TruncationMarker(0)

\* C19 as amended: tail_bytes(data, 0) is just the truncation marker for
\* every non-empty data, and the empty string for empty data.
C19_ZeroMaxIsJustMarkerUnlessEmpty ==
    (tail.max = 0 /\ tail.ret # None) =>
        TheValue(tail.ret) = IF tail.buf = <<>> THEN <<>> ELSE TruncationMarker(0)

\* C19 witness: tail_bytes(data, 0) returned for a data of two bytes.
C19_Witness ==
    /\ tail.max = 0
    /\ Len(tail.buf) = 2
    /\ tail.ret = Some(TruncationMarker(0))

\* C15: in a run in which TG_BOT_TOKEN or TG_CHAT_ID is not set, the child
\* is never spawned.
C15_MissingConfigNeverSpawns == (~env.token \/ ~env.chat) => ~Spawned

\* The relays that returned a fault.
FailedRelays == {s \in Streams : relay[s].ret # None /\ ~TheValue(relay[s].ret).ok}

\* The fault Ok(Output { .. }) meets first: that of the stdout relay if it
\* failed, that of the stderr relay otherwise.
FirstRelayFault ==
    TheValue(relay[IF "out" \in FailedRelays THEN "out" ELSE "err"].ret).err

Dropped == workerPc # "none" /\ ~senderAlive

\* C17: on every path on which the notifier was started, main has dropped
\* its Sender when it joins the worker and when it exits; once dropped the
\* Sender stays dropped (one shutdown request), and nothing is enqueued
\* after the drop.
C17_OneShutdownAfterLastEnqueue ==
    /\ []((mainPc \in {"join_worker", "done"} /\ workerPc # "none") => Dropped)
    /\ []((mainPc = "done" /\ Len(enqueued) >= 1) => Dropped)
    /\ [][Dropped => (Dropped' /\ enqueued' = enqueued)]_vars

\* C17 witness: main has exited after the drop on the path of a child killed
\* by a signal, with both messages enqueued.
C17_Witness ==
    /\ mainPc = "done"
    /\ Dropped
    /\ Len(enqueued) = 2
    /\ enqueued[2].kind = "Process terminated by signal"

\* C18: a relay that met a fault of a read, of a write or of a flush has
\* ended at that chunk and returned the fault, with no bytes.
C18_FaultAbortsRelay ==
    \A s \in Streams :
        (world.readFail[s] # None \/ world.sinkFail[s] # None \/ world.flushFail[s]) =>
            /\ relay[s].pc = "done"
            /\ ~TheValue(relay[s].ret).ok
            /\ TheValue(relay[s].ret).bytes = <<>>

\* C20: under fair scheduling, once main has dropped its Sender the worker
\* drains the channel and ends, the join returns and main exits, every
\* message enqueued having had its attempt.
C20_ShutdownCompletes ==
    Dropped ~> /\ mainPc = "done"
               /\ workerPc = "done"
               /\ queue = <<>>
               /\ Len(completed) = Len(enqueued)

\* C20 witness: main waits in the join while both messages are still in the
\* channel.
C20_Witness ==
    /\ mainPc = "join_worker"
    /\ Dropped
    /\ workerPc = "recv"
    /\ Len(queue) = 2

====
